---- MODULE Spec2Model ----
(***************************************************************************)
(* Model of the feedrv2 crawl loop: main.main() (src/main.py) driving      *)
(* pipes.http.op (src/src/pipes/http.py), the request builders of          *)
(* src/src/http.py, the queries of src/src/db_op.py and the startup of     *)
(* src/src/db.py (init).                                                   *)
(*                                                                         *)
(* Time is counted in whole ticks of the wall clock.  A response body is   *)
(* represented by the sequence of entries feedparser extracts from it (a   *)
(* body that is no feed yields the empty sequence).                        *)
(***************************************************************************)
EXTENDS Integers, Sequences, FiniteSets, TLC

\* ---------------------------------------------------------------- bounds
\* The monitored resources, in the order the storage lists them.
UrlOrder == <<"u1", "u2">>
Urls == {UrlOrder[k] : k \in 1..Len(UrlOrder)}
MaxTime == 2
MaxWait == 1
MaxMod == 1
MaxEntries == 1
MaxItemId == 1

Mods == 0..MaxMod
ItemIds == 1..MaxItemId

\* ------------------------------------------------------------ value space
None == [cls |-> "None"]

\* A feed entry: its id, and whether it carries every field main() indexes
\* (id, guidislink, title, published in '%a, %d %b %Y %H:%M:%S %z' form).
Entries == [id : ItemIds, complete : BOOLEAN]

Bodies == UNION {[1..n -> Entries] : n \in 0..MaxEntries}

Str(body) == [cls |-> "str", entries |-> body]

Modes == {"dev", "prod"}

\* Outcomes of one requests.get call followed by the header parsing of
\* http.head / http.get: a response with a parsable Last-Modified, or an
\* exception (timeout, connection failure, missing or unparsable header).
NetOutcomes == {"ok", "NetworkError"}
NetworkErrors == NetOutcomes \ {"ok"}

\* Seed documents (*.data.toml): rows for the links table and rows for the
\* http_get and http_head tables, dated before the first sweep.  Either no
\* seed at all, or the links alone, or the links with one history row each.
SeedGetRow(u) == [url |-> u, at |-> 0, last_modified |-> 0, text |-> None]
SeedHeadRow(u) == [url |-> u, at |-> 0, last_modified |-> 1]
SeedDocs ==
    {[links |-> {}, gets |-> {}, heads |-> {}],
     [links |-> Urls, gets |-> {}, heads |-> {}],
     [links |-> Urls, gets |-> {UrlOrder[1]}, heads |-> {UrlOrder[2]}]}

VARIABLES
    \* --- the database file (RecordStore)
    Links,          \* set of rows [url]
    HttpGet,        \* set of rows [url, at, last_modified, text]
    HttpHead,       \* set of rows [url, at, last_modified]
    Feeds,          \* set of rows [id] (autoincrement key)
    Items,          \* set of rows [item_id]
    \* --- configuration, fixed for a run
    mode,           \* settings["app"]["mode"]
    wait_seconds,   \* settings["http"]["head"]["wait"]
    seeds,          \* the *.data.toml document
    \* --- environment
    clock,          \* datetime.now()
    \* --- the process (locals of main() and of the last op() call)
    pc, links, i, last_get, last_head, action, method, out, text,
    entries, j, error,
    restarted       \* whether the process was ever started again

\* The startup on its own (db.init, taken line by line on any table
\* documents; see SpecDb below).
VARIABLES
    table_defs,     \* the parsed table documents: table -> column -> spec
    seed_doc,       \* load_seed_data(): sequence of [table, rows]
    db_exists,      \* db_file.is_file()
    db,             \* the physical tables of the file: table -> set of rows
    classes,        \* the mapped classes: table -> column -> mapped column
    new,            \* sess.new: the objects added and not yet committed
    seed_pos        \* position of the seeding loop in seed_doc

\* The long run of the loop against a server (see SpecLive below).
VARIABLES
    srv,            \* the Last-Modified the server reports, per resource
    last_req        \* the request the loop issued last, per resource

store == <<Links, HttpGet, HttpHead, Feeds, Items>>
server == <<srv, last_req>>
startup == <<table_defs, seed_doc, db_exists, db, classes, new, seed_pos>>
config == <<mode, wait_seconds, seeds, startup, server>>
iter == <<last_get, last_head, action, method, out, text, entries, j>>
locals == <<links, i, iter>>
vars == <<store, config, clock, pc, locals, error, restarted>>

\* ------------------------------------------------------ src/src/db_op.py

\* A variant of latest() without the WHERE clause.
latest_any_key(table, value) ==
    IF table = {} THEN None
    ELSE CHOOSE r \in table : \A q \in table : q.at <= r.at

\* latest(): SELECT ... WHERE where_col = value ORDER BY order_col DESC LIMIT 1
latest(table, value) ==
    LET rows == {r \in table : r.url = value}
    IN  IF rows = {} THEN None
        ELSE CHOOSE r \in rows : \A q \in rows : q.at <= r.at

\* list_rows(): the rows of the links table, in the order the storage
\* yields them.
list_rows(table) ==
    SelectSeq([k \in 1..Len(UrlOrder) |-> [url |-> UrlOrder[k]]],
              LAMBDA r : r \in table)

\* ------------------------------------------------- src/src/pipes/http.py

\* Variants of op() with one slip each, used to show that the properties
\* below depend on the branch they are about.
op_no_newer(lg, lh, clk, wait) ==
    IF lh = None THEN "Probe"
    ELSE IF lg = None THEN "Fetch"
    ELSE IF clk - lh.at > wait THEN "Probe"
    ELSE IF lh.last_modified > lg.last_modified THEN "Fetch"
    ELSE "Skip"

op_wait_inclusive(lg, lh, clk, wait) ==
    IF lh = None THEN "Probe"
    ELSE IF lg = None THEN "Fetch"
    ELSE IF lh.last_modified > lg.last_modified THEN "Fetch"
    ELSE IF clk - lh.at >= wait THEN "Probe"
    ELSE "Skip"

op_get_when_no_head(lg, lh, clk, wait) ==
    IF lh = None THEN "Fetch"
    ELSE IF lg = None THEN "Fetch"
    ELSE IF lh.last_modified > lg.last_modified THEN "Fetch"
    ELSE IF clk - lh.at > wait THEN "Probe"
    ELSE "Skip"

op_head_when_no_get(lg, lh, clk, wait) ==
    IF lh = None THEN "Probe"
    ELSE IF lg = None THEN "Probe"
    ELSE IF lh.last_modified > lg.last_modified THEN "Fetch"
    ELSE IF clk - lh.at > wait THEN "Probe"
    ELSE "Skip"

\* A variant of op() that probes again without looking at the clock.
op_no_cooldown(lg, lh, clk, wait) ==
    IF lh = None THEN "Probe"
    ELSE IF lg = None THEN "Fetch"
    ELSE IF lh.last_modified > lg.last_modified THEN "Fetch"
    ELSE "Probe"

\* A variant of op() with the cool-down comparison turned round.
op_wait_reversed(lg, lh, clk, wait) ==
    IF lh = None THEN "Probe"
    ELSE IF lg = None THEN "Fetch"
    ELSE IF lh.last_modified > lg.last_modified THEN "Fetch"
    ELSE IF clk - lh.at < wait THEN "Probe"
    ELSE "Skip"

\* A variant of op() that fetches also when the Probe is not newer.
op_fetch_when_equal(lg, lh, clk, wait) ==
    IF lh = None THEN "Probe"
    ELSE IF lg = None THEN "Fetch"
    ELSE IF lh.last_modified >= lg.last_modified THEN "Fetch"
    ELSE IF clk - lh.at > wait THEN "Probe"
    ELSE "Skip"

\* op(): which request the branches of op() end in.  "Probe" is the return
\* of http.head, "Fetch" the return of http.get, "Skip" the return of None.
op(lg, lh, clk, wait) ==
    IF lh = None THEN "Probe"
    ELSE IF lg = None THEN "Fetch"
    ELSE IF lh.last_modified > lg.last_modified THEN "Fetch"
    ELSE IF clk - lh.at > wait THEN "Probe"
    ELSE "Skip"

\* A variant of op() that reaches the network on every branch.
issues_request_always(act) == TRUE

\* op(): the branches that call http.head or http.get; the last one
\* (line 101) returns None without a call.
issues_request(act) == act # "Skip"

\* ------------------------------------------------------- src/src/http.py

\* http.head(): the HttpHead object built from a response.
head(url, at, last_modified) ==
    [cls |-> "HttpHead",
     row |-> [url |-> url, at |-> at, last_modified |-> last_modified]]

\* A variant of http.get() that builds the object of the other class.
get_builds_head(url, at, last_modified, body) ==
    [cls |-> "HttpHead",
     row |-> [url |-> url, at |-> at, last_modified |-> last_modified]]

\* http.get(): the HttpGet object built from a response.
get(url, at, last_modified, body) ==
    [cls |-> "HttpGet",
     row |-> [url |-> url, at |-> at, last_modified |-> last_modified,
              text |-> Str(body)]]

\* get_feed(): requests.get.  head_feed(): requests.head.
get_feed == "GET"
head_feed == "HEAD"

\* The function each builder calls to reach the network: http.head calls
\* get_feed (line 45), and so does http.get (line 88); head_feed has no
\* caller.
request_of(act) == IF act = "Probe" THEN get_feed ELSE get_feed

\* ------------------------------------------------------ constraints
\* Primary keys of the tables (the table documents are not part of src/).
HttpPkClash(table, row) == \E r \in table : r.url = row.url /\ r.at = row.at
ItemsPkClash(item_id) == \E r \in Items : r.item_id = item_id
NextFeedId == IF Feeds = {} THEN 1
              ELSE 1 + (CHOOSE n \in {f.id : f \in Feeds} :
                            \A f \in Feeds : f.id <= n)

\* ------------------------------------------------------- src/src/db.py

\* init() lines 340-349: the rows the seed document adds, per table.
SeedLinks(doc) == {[url |-> u] : u \in doc.links}
SeedGets(doc) == {SeedGetRow(u) : u \in doc.gets}
SeedHeads(doc) == {SeedHeadRow(u) : u \in doc.heads}

\* A variant of dev_reset that ignores the run mode.
dev_reset_any_mode(app_mode, is_file) == is_file

\* A variant of dev_reset with the comparison turned round.
dev_reset_unless_dev(app_mode, is_file) == app_mode # "dev" /\ is_file

\* init() lines 314-318: whether the existing database file is removed.
dev_reset(app_mode, is_file) == app_mode = "dev" /\ is_file

\* The locals of one loop iteration, as they are before the iteration has
\* assigned them.  Every one of them is assigned again before main() next
\* reads it, so an iteration that is over leaves them in this state.
NoIteration ==
    /\ last_get = None /\ last_head = None /\ action = "none"
    /\ method = "none" /\ out = None /\ text = None
    /\ entries = <<>> /\ j = 0

ClearIteration ==
    /\ last_get' = None /\ last_head' = None /\ action' = "none"
    /\ method' = "none" /\ out' = None /\ text' = None
    /\ entries' = <<>> /\ j' = 0

\* The variables of the line-by-line startup, at rest while main() runs.
StartupIdle ==
    /\ table_defs = <<>> /\ seed_doc = <<>> /\ db_exists = TRUE
    /\ db = <<>> /\ classes = <<>> /\ new = <<>> /\ seed_pos = 0

\* The variables of the long run, at rest otherwise.
ServerIdle == srv = <<>> /\ last_req = <<>>

Init ==
    /\ mode \in Modes
    /\ wait_seconds \in 0..MaxWait
    /\ seeds \in SeedDocs
    /\ Links = SeedLinks(seeds)
    /\ HttpGet = SeedGets(seeds)
    /\ HttpHead = SeedHeads(seeds)
    /\ Feeds = {} /\ Items = {}
    /\ clock = 1
    /\ pc = "start" /\ error = "none" /\ restarted = FALSE
    /\ links = <<>> /\ i = 0
    /\ NoIteration
    /\ StartupIdle
    /\ ServerIdle

\* --------------------------------------------------------- src/main.py

\* A variant of the insert that replaces what the table held.
add_overwrites(table, row) == {row}

\* A variant of the insert whose commit is left out.
add_uncommitted(table, row) == table

\* main() lines 78-79: sess.add(out), sess.commit().
add(table, row) == table \cup {row}

\* main() lines 32-44: a new session, then the links are listed.
SweepStart ==
    /\ pc = "start"
    /\ links' = list_rows(Links)
    /\ i' = 1
    /\ pc' = "loop"
    /\ UNCHANGED <<store, config, clock, iter, error, restarted>>

\* main() lines 46-66: the two latest() reads and the call of op(), which
\* issues the request itself (http.head / http.get) and builds the object.
\* An exception of the request or of the header parsing leaves main().
Decide ==
    /\ pc = "loop" /\ i <= Len(links)
    /\ LET url == links[i].url
           lg == latest(HttpGet, url)
           lh == latest(HttpHead, url)
           act == op(lg, lh, clock, wait_seconds)
       IN  /\ last_get' = lg
           /\ last_head' = lh
           /\ action' = act
           /\ IF ~issues_request(act)
              THEN /\ out' = None /\ pc' = "decided"
                   /\ UNCHANGED <<method, error>>
              ELSE /\ method' = request_of(act)
                   /\ \E res \in NetOutcomes :
                        IF res # "ok"
                        THEN /\ error' = res /\ pc' = "crashed"
                             /\ out' = out
                        ELSE /\ UNCHANGED error /\ pc' = "decided"
                             /\ \E lm \in Mods :
                                  IF act = "Probe"
                                  THEN out' = head(url, clock, lm)
                                  ELSE \E body \in Bodies :
                                         out' = get(url, clock, lm, body)
    /\ UNCHANGED <<store, config, clock, links, i, text, entries, j,
                   restarted>>

\* main() lines 68-89: nothing to add on None; otherwise the object is
\* added and committed (an HttpGet after its text was taken off it), and
\* an HttpHead ends the iteration.
Persist ==
    /\ pc = "decided"
    /\ IF out = None
       THEN /\ i' = i + 1 /\ pc' = "loop"
            /\ ClearIteration
            /\ UNCHANGED <<store, error>>
       ELSE IF out.cls = "HttpGet"
       THEN /\ text' = out.row.text
            /\ out' = [out EXCEPT !.row.text = None]
            /\ UNCHANGED <<Links, HttpHead, Feeds, Items, i, last_get,
                           last_head, action, method, entries, j>>
            /\ IF HttpPkClash(HttpGet, out.row)
               THEN /\ error' = "IntegrityError" /\ pc' = "crashed"
                    /\ UNCHANGED HttpGet
               ELSE /\ HttpGet' = add(HttpGet, out'.row)
                    /\ pc' = "feed"
                    /\ UNCHANGED error
       ELSE /\ UNCHANGED <<Links, HttpGet, Feeds, Items>>
            /\ IF HttpPkClash(HttpHead, out.row)
               THEN /\ error' = "IntegrityError" /\ pc' = "crashed"
                    /\ UNCHANGED <<HttpHead, i, iter>>
               ELSE /\ HttpHead' = add(HttpHead, out.row)
                    /\ i' = i + 1 /\ pc' = "loop"
                    /\ ClearIteration
                    /\ UNCHANGED error
    /\ UNCHANGED <<config, clock, links, restarted>>

\* main() lines 92-110: the text is parsed and a Feeds row is committed.
AddFeed ==
    /\ pc = "feed"
    /\ entries' = text.entries
    /\ Feeds' = Feeds \cup {[id |-> NextFeedId]}
    /\ j' = 1
    /\ pc' = "items"
    /\ UNCHANGED <<Links, HttpGet, HttpHead, Items, config, clock, links,
                   i, last_get, last_head, action, method, out, text,
                   error, restarted>>

\* main() lines 112-131: one entry becomes one Items row, committed alone.
\* An entry without one of the indexed fields, or a row whose item_id is
\* already stored, raises and leaves main().
AddItem ==
    /\ pc = "items" /\ j <= Len(entries)
    /\ IF ~entries[j].complete
       THEN /\ error' = "KeyError" /\ pc' = "crashed"
            /\ UNCHANGED <<Items, j>>
       ELSE IF ItemsPkClash(entries[j].id)
       THEN /\ error' = "IntegrityError" /\ pc' = "crashed"
            /\ UNCHANGED <<Items, j>>
       ELSE /\ Items' = Items \cup {[item_id |-> entries[j].id]}
            /\ j' = j + 1
            /\ UNCHANGED <<pc, error>>
    /\ UNCHANGED <<Links, HttpGet, HttpHead, Feeds, config, clock, links,
                   i, last_get, last_head, action, method, out, text,
                   entries, restarted>>

\* main() lines 133-136: the entries are exhausted; on to the next link.
ItemsDone ==
    /\ pc = "items" /\ j > Len(entries)
    /\ i' = i + 1
    /\ pc' = "loop"
    /\ ClearIteration
    /\ UNCHANGED <<store, config, clock, links, error, restarted>>

\* main() lines 139-141: the links are exhausted; the session is closed and
\* the process sleeps, during which the clock moves on.
SweepEnd ==
    /\ pc = "loop" /\ i > Len(links)
    /\ clock < MaxTime
    /\ clock' = clock + 1
    /\ pc' = "start"
    /\ UNCHANGED <<store, config, locals, error, restarted>>

\* ----------------------------------------------------------- environment

\* A row is added to the links table from outside the process.
AddLink ==
    /\ pc = "start"
    /\ \E u \in Urls :
         /\ [url |-> u] \notin Links
         /\ Links' = Links \cup {[url |-> u]}
    /\ UNCHANGED <<HttpGet, HttpHead, Feeds, Items, config, clock, pc,
                   locals, error, restarted>>

\* The process is stopped between two sweeps and started again: db.init()
\* lines 300-352 run before main().  In dev mode the database file is
\* removed first; then the seed rows are added in one commit, which fails as
\* a whole when a row's primary key is stored already.
Restart ==
    /\ pc = "start"
    /\ restarted' = TRUE
    /\ links' = <<>> /\ i' = 0
    /\ ClearIteration
    /\ LET wipe == dev_reset(mode, TRUE)
           L == IF wipe THEN {} ELSE Links
           G == IF wipe THEN {} ELSE HttpGet
           H == IF wipe THEN {} ELSE HttpHead
           clash == \/ SeedLinks(seeds) \cap L # {}
                    \/ \E r \in SeedGets(seeds) : HttpPkClash(G, r)
                    \/ \E r \in SeedHeads(seeds) : HttpPkClash(H, r)
       IN  /\ Feeds' = IF wipe THEN {} ELSE Feeds
           /\ Items' = IF wipe THEN {} ELSE Items
           /\ IF clash
              THEN /\ Links' = L /\ HttpGet' = G /\ HttpHead' = H
                   /\ error' = "IntegrityError" /\ pc' = "init_failed"
              ELSE /\ Links' = L \cup SeedLinks(seeds)
                   /\ HttpGet' = G \cup SeedGets(seeds)
                   /\ HttpHead' = H \cup SeedHeads(seeds)
                   /\ error' = "none" /\ pc' = "start"
    /\ UNCHANGED <<config, clock>>

Next ==
    \/ SweepStart \/ Decide \/ Persist \/ AddFeed \/ AddItem \/ ItemsDone
    \/ SweepEnd \/ AddLink \/ Restart

Spec == Init /\ [][Next]_vars

\* ==================================================== the startup alone
\* db.init() taken line by line, on table documents and seed documents
\* drawn from the sets below.  A row is a function from column names to
\* values; the values of a seed row are taken to be of their column's type.

MaxSeedRows == 2

\* ---------------------------------------------------------------- inputs
\* Type names found in the sampled table documents: two of TYPE_MAP and one
\* that TYPE_MAP does not hold.
TypeSample == {"int", "text", "money"}

ColumnSpecs(primaries) == [type : TypeSample, primary : primaries]

\* The columns of a table document: a column "k", primary or not, alone or
\* with one more column that is not primary.
ColumnsOf(others) ==
    {[c \in {"k"} \cup others |-> IF c = "k" THEN kk ELSE oo] :
        kk \in ColumnSpecs(BOOLEAN), oo \in ColumnSpecs({FALSE})}
ColumnsT1 == ColumnsOf({}) \cup ColumnsOf({"v"}) \cup ColumnsOf({"metadata"})
ColumnsT2 == {[c \in {"k"} |-> [type |-> "int", primary |-> b]] : b \in BOOLEAN}

TableDefSets ==
    {("t1" :> c1) : c1 \in ColumnsT1}
    \cup {("t1" :> c1) @@ ("t2" :> c2) : c1 \in ColumnsT1, c2 \in ColumnsT2}

SeedRows ==
    {("k" :> n) : n \in 1..MaxSeedRows}
    \cup {("k" :> n) @@ ("v" :> n) : n \in 1..MaxSeedRows}
RowSeqs == UNION {[1..n -> SeedRows] : n \in 0..MaxSeedRows}

\* A seed document: rows for t1, alone, or followed by rows for t2 or for a
\* table no document defines, or preceded by the latter.
Entry(t, rs) == [table |-> t, rows |-> rs]
SeedDocuments ==
    {<<>>}
    \cup {<<Entry("t1", rs)>> : rs \in RowSeqs}
    \cup {<<Entry("t1", rs), Entry(x, <<("k" :> 1)>>)>> :
            rs \in RowSeqs, x \in {"t2", "ghost"}}
    \cup {<<Entry("ghost", <<("k" :> 1)>>), Entry("t1", rs)>> : rs \in RowSeqs}

\* The file an earlier run left: table t1 with one row.
OldFile == ("t1" :> {("k" :> MaxSeedRows)})

\* -------------------------------------------------------- src/src/db.py

TYPE_MAP ==
    ("int" :> "Integer") @@ ("integer" :> "Integer")
    @@ ("smallint" :> "SmallInteger") @@ ("bigint" :> "BigInteger")
    @@ ("real" :> "Float") @@ ("float" :> "Float") @@ ("double" :> "Float")
    @@ ("decimal" :> "Numeric")
    @@ ("bool" :> "Boolean") @@ ("boolean" :> "Boolean")
    @@ ("text" :> "Text") @@ ("varchar" :> "String") @@ ("char" :> "CHAR")
    @@ ("date" :> "Date") @@ ("time" :> "Time")
    @@ ("datetime" :> "DateTime") @@ ("timestamp" :> "DateTime")
    @@ ("blob" :> "LargeBinary") @@ ("uuid" :> "String")
    @@ ("str" :> "String") @@ ("json" :> "JSON")

\* Attributes every class has from Base (DeclarativeBase).
BaseAttrs == {"metadata", "registry"}

\* make_mapped_column() lines 151-153: the ValueError for an unknown type.
unknown_type(spec) == spec.type \notin DOMAIN TYPE_MAP

\* make_mapped_column() lines 155-184 (the sampled documents carry no
\* length, nullable, unique, autoincrement or default).
make_mapped_column(col_name, spec) ==
    [sa_type |-> TYPE_MAP[spec.type],
     primary_key |-> spec.primary,
     nullable |-> ~spec.primary,
     unique |-> FALSE,
     autoincrement |-> (spec.primary /\ spec.type = "int")]

\* build_class_shells() line 133.
pk_items(cols) == {c \in DOMAIN cols : cols[c].primary}

\* A variant of the check of line 134 that lets every table pass.
no_primary_key_unchecked(cols) == FALSE

\* build_class_shells() lines 134-138: the ValueError for a table without
\* a primary column.
no_primary_key(cols) == pk_items(cols) = {}

\* build_class_shells() raises: on the first table without a primary
\* column, or with a primary column of unknown type.
shells_raise(defs) ==
    \E t \in DOMAIN defs :
        \/ no_primary_key(defs[t])
        \/ \E c \in pk_items(defs[t]) : unknown_type(defs[t][c])

\* build_class_shells() lines 122-147: one class per table, with its
\* primary columns attached.
build_class_shells(defs) ==
    [t \in DOMAIN defs |->
        [c \in pk_items(defs[t]) |-> make_mapped_column(c, defs[t][c])]]

\* hasattr(cls, name): the columns attached so far, and what Base gives.
hasattr(cls, name) == name \in DOMAIN cls \/ name \in BaseAttrs

\* wire_columns() raises: on a column it attaches whose type is unknown.
wire_raises(shells, defs) ==
    \E t \in DOMAIN shells : \E c \in DOMAIN defs[t] :
        ~hasattr(shells[t], c) /\ unknown_type(defs[t][c])

\* wire_columns() lines 187-196: every column the class does not have yet
\* is attached; the others are passed over.
wire_columns(shells, defs) ==
    [t \in DOMAIN shells |->
        [c \in DOMAIN shells[t]
               \cup {d \in DOMAIN defs[t] : ~hasattr(shells[t], d)} |->
            IF c \in DOMAIN shells[t] THEN shells[t][c]
            ELSE make_mapped_column(c, defs[t][c])]]

\* Base.metadata.create_all(): a table for every class that has none.
create_all(d, cls) ==
    [t \in DOMAIN d \cup DOMAIN cls |-> IF t \in DOMAIN d THEN d[t] ELSE {}]

\* NULL, written as a value that no seed row carries.
NULL == 0

\* A variant of the INSERT that writes the primary columns only.
stored_row_pk_only(cls, row) ==
    [c \in {d \in DOMAIN cls : cls[d].primary_key} |->
        IF c \in DOMAIN row THEN row[c] ELSE NULL]

\* The row an object becomes on INSERT: one value per mapped column, NULL
\* where the object has none.
stored_row(cls, row) ==
    [c \in DOMAIN cls |-> IF c \in DOMAIN row THEN row[c] ELSE NULL]

\* Two rows of a table agree on its primary columns.
SamePk(cls, r1, r2) ==
    \A c \in DOMAIN cls :
        cls[c].primary_key => (c \in DOMAIN r1 /\ c \in DOMAIN r2 /\ r1[c] = r2[c])

\* sess.commit() raises IntegrityError: two objects of the session, or an
\* object and a stored row, have the same primary key.
commit_raises(d, objs, cls) ==
    \/ \E m, n \in 1..Len(objs) :
         /\ m < n /\ objs[m].table = objs[n].table
         /\ SamePk(cls[objs[m].table], objs[m].row, objs[n].row)
    \/ \E n \in 1..Len(objs) : \E r \in d[objs[n].table] :
         SamePk(cls[objs[n].table], objs[n].row, r)

\* sess.commit(): every object of the session is inserted.
insert_all(d, objs, cls) ==
    [t \in DOMAIN d |->
        d[t] \cup {stored_row(cls[t], objs[n].row) :
                     n \in {m \in 1..Len(objs) : objs[m].table = t}}]

\* A variant of the session's exit that commits what was added so far.
rollback_commits(d, objs, cls) == insert_all(d, objs, cls)

\* Leaving `with session() as sess` on an exception: the session is closed
\* and what it held is discarded.
rollback(d, objs, cls) == d

\* The variables of the crawl, at rest while init() runs.
CrawlIdle ==
    /\ Links = {} /\ HttpGet = {} /\ HttpHead = {} /\ Feeds = {} /\ Items = {}
    /\ wait_seconds = 0
    /\ seeds = [links |-> {}, gets |-> {}, heads |-> {}]
    /\ clock = 1 /\ restarted = FALSE
    /\ links = <<>> /\ i = 0
    /\ NoIteration
    /\ ServerIdle

crawl == <<store, wait_seconds, seeds, clock, locals, restarted, server>>

InitDb ==
    /\ mode \in Modes
    /\ table_defs \in TableDefSets
    /\ seed_doc \in SeedDocuments
    /\ \/ db_exists = FALSE /\ db = <<>>
       \/ db_exists = TRUE /\ db = OldFile
    /\ classes = <<>> /\ new = <<>> /\ seed_pos = 0
    /\ pc = "init" /\ error = "none"
    /\ CrawlIdle

\* init() lines 314-318.
DevReset ==
    /\ pc = "init"
    /\ IF dev_reset(mode, db_exists)
       THEN db_exists' = FALSE /\ db' = <<>>
       ELSE UNCHANGED <<db_exists, db>>
    /\ pc' = "shells"
    /\ UNCHANGED <<mode, table_defs, seed_doc, classes, new, seed_pos,
                   error, crawl>>

\* init() line 331.
BuildClassShells ==
    /\ pc = "shells"
    /\ IF shells_raise(table_defs)
       THEN error' = "ValueError" /\ pc' = "init_failed" /\ UNCHANGED classes
       ELSE classes' = build_class_shells(table_defs) /\ pc' = "wire"
            /\ UNCHANGED error
    /\ UNCHANGED <<mode, table_defs, seed_doc, db_exists, db, new, seed_pos,
                   crawl>>

\* init() line 332.
WireColumns ==
    /\ pc = "wire"
    /\ IF wire_raises(classes, table_defs)
       THEN error' = "ValueError" /\ pc' = "init_failed" /\ UNCHANGED classes
       ELSE classes' = wire_columns(classes, table_defs) /\ pc' = "create"
            /\ UNCHANGED error
    /\ UNCHANGED <<mode, table_defs, seed_doc, db_exists, db, new, seed_pos,
                   crawl>>

\* init() lines 335-342: the engine, the tables, the seed document, the
\* session.
CreateAll ==
    /\ pc = "create"
    /\ db_exists' = TRUE
    /\ db' = create_all(db, classes)
    /\ seed_pos' = 1
    /\ pc' = "seed"
    /\ UNCHANGED <<mode, table_defs, seed_doc, classes, new, error, crawl>>

\* init() lines 344-348: one table of the seed document.  The ValueError
\* for a table without a class, or the TypeError of cls(**row) for a key
\* the class has no attribute for, leaves the `with` block.
SeedTable ==
    /\ pc = "seed" /\ seed_pos <= Len(seed_doc)
    /\ LET e == seed_doc[seed_pos]
       IN  IF e.table \notin DOMAIN classes
           THEN /\ error' = "ValueError" /\ pc' = "init_failed"
                /\ db' = rollback(db, new, classes) /\ new' = <<>>
                /\ UNCHANGED seed_pos
           ELSE IF \E n \in 1..Len(e.rows) : \E f \in DOMAIN e.rows[n] :
                       ~hasattr(classes[e.table], f)
           THEN /\ error' = "TypeError" /\ pc' = "init_failed"
                /\ db' = rollback(db, new, classes) /\ new' = <<>>
                /\ UNCHANGED seed_pos
           ELSE /\ new' = new \o [n \in 1..Len(e.rows) |->
                                    [table |-> e.table, row |-> e.rows[n]]]
                /\ seed_pos' = seed_pos + 1
                /\ UNCHANGED <<db, pc, error>>
    /\ UNCHANGED <<mode, table_defs, seed_doc, db_exists, classes, crawl>>

\* init() lines 349-352: the one commit, then the return.
Commit ==
    /\ pc = "seed" /\ seed_pos > Len(seed_doc)
    /\ IF commit_raises(db, new, classes)
       THEN /\ error' = "IntegrityError" /\ pc' = "init_failed"
            /\ db' = rollback(db, new, classes)
       ELSE /\ db' = insert_all(db, new, classes)
            /\ pc' = "ready"
            /\ UNCHANGED error
    /\ new' = <<>>
    /\ UNCHANGED <<mode, table_defs, seed_doc, db_exists, classes, seed_pos,
                   crawl>>

NextDb ==
    \/ DevReset \/ BuildClassShells \/ WireColumns \/ CreateAll
    \/ SeedTable \/ Commit

SpecDb == InitDb /\ [][NextDb]_vars

\* ===================================================== the long run
\* The loop of main() running on without failures, against a server whose
\* Last-Modified never decreases and is the same for every request made at
\* one moment.  One step is one whole loop iteration.  Times are kept
\* relative to now: the clock stays at Horizon and the stored times move
\* back by one with every sweep, down to 0, which stands for any time more
\* than MaxWait ago.  Of each history table only the latest row of a
\* resource is kept, the one row latest() can return.

Horizon == MaxWait + 1

\* The table with the latest row of the resource replaced by the new one.
keep_latest(table, row) == {r \in table : r.url # row.url} \cup {row}

\* The stored times, one tick later.
age(table) ==
    {[r EXCEPT !.at = IF r.at > 0 THEN r.at - 1 ELSE 0] : r \in table}

InitLive ==
    /\ Links = {[url |-> u] : u \in Urls}
    /\ HttpGet = {} /\ HttpHead = {} /\ Feeds = {} /\ Items = {}
    /\ mode \in Modes
    /\ wait_seconds \in 0..MaxWait
    /\ seeds = [links |-> Urls, gets |-> {}, heads |-> {}]
    /\ clock = Horizon
    /\ srv \in [Urls -> Mods]
    /\ last_req = [u \in Urls |-> "none"]
    /\ links = list_rows(Links) /\ i = 1
    /\ pc = "loop" /\ error = "none" /\ restarted = FALSE
    /\ NoIteration
    /\ StartupIdle

live_rest == <<Links, Feeds, Items, mode, wait_seconds, seeds, startup, clock,
               links, pc, iter, error, restarted>>

\* main() lines 46-136 for one link, with a response from the server: the
\* two latest() reads, op(), and the commit of the object it built.
LiveIteration ==
    /\ i <= Len(links)
    /\ LET url == links[i].url
           lg == latest(HttpGet, url)
           lh == latest(HttpHead, url)
           act == op(lg, lh, clock, wait_seconds)
       IN  /\ IF ~issues_request(act)
              THEN UNCHANGED <<HttpGet, HttpHead, last_req>>
              ELSE /\ last_req' = [last_req EXCEPT ![url] = act]
                   /\ IF act = "Probe"
                      THEN /\ HttpHead' = keep_latest(HttpHead,
                                             head(url, clock, srv[url]).row)
                           /\ UNCHANGED HttpGet
                      ELSE /\ HttpGet' = keep_latest(HttpGet,
                                 [get(url, clock, srv[url], <<>>).row
                                     EXCEPT !.text = None])
                           /\ UNCHANGED HttpHead
    /\ i' = i + 1
    /\ UNCHANGED <<srv, live_rest>>

\* main() lines 139-141 and 32-44: the sweep is over, the process sleeps,
\* and the next sweep lists the links.
LiveSweep ==
    /\ i > Len(links)
    /\ HttpGet' = age(HttpGet)
    /\ HttpHead' = age(HttpHead)
    /\ i' = 1
    /\ UNCHANGED <<srv, last_req, live_rest>>

\* The content of a resource changes on the server.
ServerUpdate ==
    /\ \E u \in Urls :
         /\ srv[u] < MaxMod
         /\ srv' = [srv EXCEPT ![u] = srv[u] + 1]
    /\ UNCHANGED <<HttpGet, HttpHead, last_req, i, live_rest>>

NextLive == LiveIteration \/ LiveSweep \/ ServerUpdate

\* The while loop of main() keeps iterating and sleeping.
SpecLive ==
    /\ InitLive /\ [][NextLive]_vars
    /\ WF_vars(LiveIteration) /\ WF_vars(LiveSweep)

\* ================================================================ claims

\* The resource of the current loop iteration.
Cur == links[i].url

\* The rows of a history table that belong to resource u, and the one of
\* them issued last (stated here on the stored rows, apart from latest()).
RowsOf(table, u) == {r \in table : r.url = u}
Newest(table, u) ==
    CHOOSE r \in RowsOf(table, u) : \A q \in RowsOf(table, u) : q.at <= r.at

NoFullFetch(u) == RowsOf(HttpGet, u) = {}
NoProbe(u) == RowsOf(HttpHead, u) = {}

\* op() has just returned for the current resource (no commit since).
Decided == pc = "decided"

\* op() has just chosen a request for the current resource, whether the
\* request came back or raised.
Chosen == pc = "decided" \/ (pc = "crashed" /\ error = "NetworkError")

\* C1: for a resource with neither a FullFetch nor a Probe record, the
\* decision is Fetch (and the first record ever persisted is a FullFetch).
C1_BootstrapIsFetch ==
    (Chosen /\ NoFullFetch(Cur) /\ NoProbe(Cur)) => action = "Fetch"

\* C2: when both records exist and the latest Probe's last_modified is
\* strictly greater than the latest FullFetch's, the decision is Fetch,
\* whatever the clock and the cool-down are.
C2_NewerProbeFetches ==
    (Chosen /\ ~NoFullFetch(Cur) /\ ~NoProbe(Cur)
        /\ Newest(HttpHead, Cur).last_modified
             > Newest(HttpGet, Cur).last_modified)
    => action = "Fetch"

\* C2 witness: a Fetch decided on a newer Probe that was issued no longer
\* than the cool-down ago.
C2_Witness ==
    /\ Decided /\ ~NoFullFetch(Cur) /\ ~NoProbe(Cur)
    /\ Newest(HttpHead, Cur).last_modified > Newest(HttpGet, Cur).last_modified
    /\ clock - Newest(HttpHead, Cur).at <= wait_seconds
    /\ action = "Fetch" /\ out.cls = "HttpGet"

\* C3: when both records exist and the latest Probe's last_modified is not
\* greater than the latest FullFetch's, the decision is Probe if the time
\* since the latest Probe is strictly greater than the cool-down, and Skip
\* otherwise; it is never Fetch.
C3_CoolDownDecides ==
    (Chosen /\ ~NoFullFetch(Cur) /\ ~NoProbe(Cur)
        /\ Newest(HttpHead, Cur).last_modified
             <= Newest(HttpGet, Cur).last_modified)
    => action = (IF clock - Newest(HttpHead, Cur).at > wait_seconds
                 THEN "Probe" ELSE "Skip")

\* C3 witness: a Skip decided when the elapsed time equals the cool-down.
C3_Witness ==
    /\ Decided /\ ~NoFullFetch(Cur) /\ ~NoProbe(Cur)
    /\ Newest(HttpHead, Cur).last_modified <= Newest(HttpGet, Cur).last_modified
    /\ clock - Newest(HttpHead, Cur).at = wait_seconds
    /\ wait_seconds > 0
    /\ action = "Skip" /\ out = None

\* One new row, of the current resource, is added to a history table.
AddsOne(table, table2) ==
    \E r \in table2 : r \notin table /\ table2 = table \cup {r} /\ r.url = Cur

\* C4: for a resource with a FullFetch record and no Probe record the
\* decision is Probe, and what the iteration persists is one Probe record
\* (nothing at all if the commit fails).
C4_ProbeWhenOnlyFullFetch ==
    /\ []((Chosen /\ ~NoFullFetch(Cur) /\ NoProbe(Cur)) => action = "Probe")
    /\ [][(Decided /\ ~NoFullFetch(Cur) /\ NoProbe(Cur))
            => /\ HttpGet' = HttpGet /\ Feeds' = Feeds /\ Items' = Items
               /\ \/ AddsOne(HttpHead, HttpHead')
                  \/ (pc' = "crashed" /\ HttpHead' = HttpHead)]_vars

\* C4 witness: the Probe record of a resource that had only a FullFetch
\* record is about to be committed.
C4_Witness ==
    /\ Decided /\ ~NoFullFetch(Cur) /\ NoProbe(Cur)
    /\ action = "Probe" /\ out.cls = "HttpHead" /\ out.row.url = Cur

\* C5: for a resource with a Probe record and no FullFetch record the
\* decision is Fetch, and the fetch-history record the iteration persists is
\* one FullFetch record (nothing at all if the commit fails).
C5_FetchWhenOnlyProbe ==
    /\ []((Chosen /\ NoFullFetch(Cur) /\ ~NoProbe(Cur)) => action = "Fetch")
    /\ [][(Decided /\ NoFullFetch(Cur) /\ ~NoProbe(Cur))
            => /\ HttpHead' = HttpHead
               /\ \/ AddsOne(HttpGet, HttpGet')
                  \/ (pc' = "crashed" /\ HttpGet' = HttpGet)]_vars

\* C5 witness: the FullFetch record of a resource that had only a Probe
\* record is about to be committed.
C5_Witness ==
    /\ Decided /\ NoFullFetch(Cur) /\ ~NoProbe(Cur)
    /\ action = "Fetch" /\ out.cls = "HttpGet" /\ out.row.url = Cur

\* C6: a failure of the network step for one resource is confined to that
\* resource: the sweep goes on with the resources listed after it and the
\* scheduler goes on to later sweeps, so main() is never left on it while
\* resources of the sweep are still to come.
C6_NetworkFailureConfined ==
    (error = "NetworkError" /\ i < Len(links)) => pc # "crashed"

\* C7: a constraint violation on the insert of a record during a sweep does
\* not keep the resources listed after it from being processed, so main() is
\* never left on it while resources of the sweep are still to come.
C7_InsertFailureConfined ==
    (error = "IntegrityError" /\ i < Len(links)) => pc # "crashed"

\* Every entry of the body in hand carries the fields main() indexes.
WellFormed == \A k \in 1..Len(entries) : entries[k].complete

\* C8: every Fetch whose body holds k (well-formed) entries persists one
\* Feeds row and k Items rows, also when entries were ingested before, and
\* a Probe or a Skip persists none: once the Feeds row of a Fetch is
\* committed, the iteration does not end before its k-th Items row is.
C8_FetchIngestsEveryEntry ==
    /\ (pc = "crashed" /\ action = "Fetch" /\ entries # <<>> /\ WellFormed)
         => j > Len(entries)
    /\ (pc \in {"feed", "items"}) => action = "Fetch"

\* What op() is to return on the stored rows of resource u at time clk.
Due(u, clk) ==
    IF NoProbe(u) THEN "Probe"
    ELSE IF NoFullFetch(u) THEN "Fetch"
    ELSE IF Newest(HttpHead, u).last_modified > Newest(HttpGet, u).last_modified
         THEN "Fetch"
    ELSE IF clk - Newest(HttpHead, u).at > wait_seconds THEN "Probe"
    ELSE "Skip"

C13_ListedIsDecided == (pc = "crashed") => i >= Len(links)

C18_OneHistoryRecord ==
    [][/\ (Decided /\ action = "Probe" /\ pc' # "crashed")
            => (AddsOne(HttpHead, HttpHead') /\ HttpGet' = HttpGet)
       /\ (Decided /\ action = "Fetch" /\ pc' # "crashed")
            => (AddsOne(HttpGet, HttpGet') /\ HttpHead' = HttpHead)
       /\ (pc \in {"loop", "feed", "items"})
            => (HttpGet' = HttpGet /\ HttpHead' = HttpHead)]_vars

\* C18 witness: the FullFetch row of a Fetch is committed, next to an
\* older FullFetch row of the same resource and rows of another resource.
C18_Witness ==
    /\ pc = "feed" /\ action = "Fetch"
    /\ out.row \in HttpGet /\ out.row.url = Cur
    /\ Cardinality(RowsOf(HttpGet, Cur)) = 2
    /\ \E r \in HttpHead : r.url # Cur

\* C19: when the decision is Skip the iteration issues no request, and the
\* step that ends it leaves every table as it was.
C19_SkipTouchesNothing ==
    /\ [](action = "Skip" => (method = "none" /\ out = None))
    /\ [][(Decided /\ action = "Skip")
            => (store' = store /\ method' = "none" /\ pc' = "loop")]_vars

\* C19 witness: a Skip was decided while both history tables hold rows.
C19_Witness ==
    /\ Decided /\ action = "Skip" /\ method = "none"
    /\ HttpGet # {} /\ HttpHead # {}

\* C20: a Probe issues only a HEAD-style request, never a GET-style one.
C20_ProbeIsLightweight ==
    (action = "Probe" /\ method # "none") => method = head_feed

\* C21: two Probe records of a resource that follow each other in issued-at
\* order, with no FullFetch record of the resource issued between them, are
\* more than the cool-down apart.
C21_ProbesCoolDownApart ==
    \A u \in Urls : \A p1, p2 \in RowsOf(HttpHead, u) :
        (/\ p1.at < p2.at
         /\ ~\E p \in RowsOf(HttpHead, u) : p1.at < p.at /\ p.at < p2.at
         /\ ~\E g \in RowsOf(HttpGet, u) : p1.at < g.at /\ g.at < p2.at)
        => p2.at - p1.at > wait_seconds

\* C21 witness: a resource has two Probe records with no FullFetch record
\* between them, both issued by the loop.
C21_Witness ==
    \E u \in Urls : \E p1, p2 \in RowsOf(HttpHead, u) :
        /\ 0 < p1.at /\ p1.at < p2.at
        /\ ~\E g \in RowsOf(HttpGet, u) : p1.at < g.at /\ g.at < p2.at
        /\ RowsOf(HttpGet, u) # {}

\* A step of the running scheduler (not a start of the process, and not a
\* write from outside).
LoopStep == pc # "start" \/ pc' = "loop"

\* C22: while the scheduler runs, every FullFetch and Probe record that is
\* stored stays stored with the same fields: the two tables only grow.
C22_HistoryAppendOnly ==
    [][LoopStep => (HttpGet \subseteq HttpGet' /\ HttpHead \subseteq HttpHead')]_vars

\* C22 witness: a second Probe record of a resource has been committed next
\* to the first, and a FullFetch record is stored as well.
C22_Witness ==
    /\ pc = "loop"
    /\ \E u \in Urls : Cardinality(RowsOf(HttpHead, u)) >= 2
    /\ HttpGet # {}

\* C23: the FullFetch record stored for a Fetch carries the body text the
\* retrieval returned.
C23_FullFetchCarriesBody ==
    (pc = "feed") =>
        \E r \in HttpGet : r.url = Cur /\ r.at = clock /\ r.text = text

\* One row more in the table, and the rows it held still there.
OneMore(table, table2) ==
    table \subseteq table2 /\ Cardinality(table2) = Cardinality(table) + 1

\* C26: in a Fetch iteration the FullFetch row is committed first, then the
\* Feeds row, then the Items rows, one row per commit; and when the
\* iteration stops during the ingestion, the rows committed so far stay: the
\* latest FullFetch of the resource is the one of this retrieval although
\* not all its entries were ingested.
C26_CommitOrderNoRollback ==
    /\ [][(Decided /\ action = "Fetch" /\ pc' # "crashed")
            => (OneMore(HttpGet, HttpGet') /\ out'.row \in HttpGet'
                /\ Feeds' = Feeds /\ Items' = Items)]_vars
    /\ [][(pc = "feed")
            => (OneMore(Feeds, Feeds') /\ out.row \in HttpGet'
                /\ HttpGet' = HttpGet /\ Items' = Items)]_vars
    /\ [][(pc = "items")
            => (/\ HttpGet' = HttpGet /\ Feeds' = Feeds
                /\ Feeds # {} /\ out.row \in HttpGet
                /\ OneMore(Items, Items') \/ Items' = Items)]_vars
    /\ []((pc = "crashed" /\ j >= 1)
            => (/\ Newest(HttpGet, Cur) = out.row
                /\ Feeds # {}
                /\ Cardinality(Items) >= j - 1))

\* C26 witness: the iteration has stopped on an entry, after the FullFetch
\* row and the Feeds row were committed.
C26_Witness ==
    /\ pc = "crashed" /\ action = "Fetch"
    /\ j >= 1 /\ j <= Len(entries)
    /\ Newest(HttpGet, Cur) = out.row /\ Feeds # {}

\* ------------------------------------------------ claims on the long run

\* C24: when the server's Last-Modified of a resource is strictly newer
\* than the last_modified of its latest FullFetch record (and, the server
\* never going back, stays so), a Fetch of the resource is eventually
\* issued and a FullFetch record with a last_modified at least as new is
\* stored.
C24_NewerContentIsFetched ==
    \A u \in Urls : \A m \in Mods :
        (~NoFullFetch(u) /\ srv[u] = m /\ Newest(HttpGet, u).last_modified < m)
        ~> (~NoFullFetch(u) /\ Newest(HttpGet, u).last_modified >= m
            /\ last_req[u] = "Fetch")

\* C24 witness: the content became newer than the latest FullFetch record
\* during the cool-down, and a Probe has recorded it since.
C24_Witness ==
    \E u \in Urls :
        /\ ~NoFullFetch(u) /\ ~NoProbe(u)
        /\ Newest(HttpGet, u).last_modified < srv[u]
        /\ Newest(HttpHead, u).last_modified = srv[u]
        /\ last_req[u] = "Probe"
        /\ wait_seconds > 0

\* The loop iteration of the step issues a Fetch of resource u.
FetchStep(u) ==
    /\ i <= Len(links) /\ links[i].url = u /\ i' = i + 1
    /\ RowsOf(HttpGet', u) # RowsOf(HttpGet, u)

\* C25: against such a server the loop never issues a Fetch of a resource
\* when the request it issued last for that resource was a Fetch too.
C25_NoFetchAfterFetch ==
    [][\A u \in Urls : FetchStep(u) => last_req[u] = "Probe"]_vars

\* C25 witness: a resource was fetched, the content changed on the server
\* after that, and the resource is about to be decided again.
C25_Witness ==
    /\ i <= Len(links)
    /\ last_req[Cur] = "Fetch"
    /\ Newest(HttpGet, Cur).last_modified < srv[Cur]
    /\ Newest(HttpGet, Cur).at < clock

\* ------------------------------------------------- claims on the startup

\* Every row the file holds is still there after the step.
RowsKept == \A t \in DOMAIN db : t \in DOMAIN db' /\ db[t] \subseteq db'[t]

NoPrimary(t) == \A c \in DOMAIN table_defs[t] : ~table_defs[t][c].primary

\* C12: when some table has no primary column the compilation fails: no
\* class is handed on and the startup gets no further; no class without a
\* primary column ever exists; and a physical table is created only after
\* the whole compilation has succeeded.
C12_NoPrimaryKeyFails ==
    /\ []((\E t \in DOMAIN table_defs : NoPrimary(t))
            => (pc \in {"init", "shells", "init_failed"}
                /\ DOMAIN classes = {}))
    /\ [](\A t \in DOMAIN classes :
            \E c \in DOMAIN classes[t] : classes[t][c].primary_key)
    /\ [][(\E t \in DOMAIN db' : t \notin DOMAIN db)
            => (pc = "create" /\ DOMAIN classes = DOMAIN table_defs)]_vars

\* C12 witness: the startup has failed on a table without primary column,
\* listed with a table that has one; the file holds what it held before.
C12_Witness ==
    /\ pc = "init_failed" /\ error = "ValueError"
    /\ \E t \in DOMAIN table_defs : NoPrimary(t)
    /\ \E t \in DOMAIN table_defs : ~NoPrimary(t)
    /\ DOMAIN classes = {}
    /\ db = OldFile

\* The rows the seed document gives for table t.
SeedRowsOf(t) ==
    LET n == CHOOSE m \in 0..Len(seed_doc) :
                 /\ m > 0 => seed_doc[m].table = t
                 /\ m = 0 => \A q \in 1..Len(seed_doc) : seed_doc[q].table # t
    IN  IF n = 0 THEN <<>> ELSE seed_doc[n].rows

\* Stored row r has every field of seed row s, with the same value.
FieldForField(r, s) == \A f \in DOMAIN s : f \in DOMAIN r /\ r[f] = s[f]

SeedNamesUnknown ==
    \E n \in 1..Len(seed_doc) : seed_doc[n].table \notin DOMAIN table_defs

\* C16: with a seed document that names an unknown table the startup never
\* returns, and no step of the seeding stores a row, the rows of known
\* tables that come earlier in the document included.
C16_UnknownSeedTableFails ==
    /\ [](SeedNamesUnknown => pc # "ready")
    /\ [][(SeedNamesUnknown /\ pc = "seed") => db' = db]_vars

\* C16 witness: the startup has failed on the unknown table after the rows
\* of a known table were added to the session, and that table is empty.
C16_Witness ==
    /\ pc = "init_failed" /\ error = "ValueError" /\ seed_pos = 2
    /\ seed_doc[1].table \in DOMAIN classes /\ Len(seed_doc[1].rows) > 0
    /\ seed_doc[2].table \notin DOMAIN classes
    /\ db[seed_doc[1].table] = {}

\* C17: the compilation succeeds exactly when every column's type name is
\* one of TYPE_MAP, and then every column has the type TYPE_MAP gives for
\* its name; a column of any other type name, primary or not, makes the
\* compilation fail.
C17_TypeNamesDecide ==
    /\ (pc = "create") =>
          \A t \in DOMAIN table_defs : \A c \in DOMAIN table_defs[t] :
             ~unknown_type(table_defs[t][c])
    /\ (pc = "create") =>
          \A t \in DOMAIN classes : \A c \in DOMAIN classes[t] :
             classes[t][c].sa_type = TYPE_MAP[table_defs[t][c].type]
    /\ (pc = "init_failed" /\ seed_pos = 0) =>
          \E t \in DOMAIN table_defs :
             \/ NoPrimary(t)
             \/ \E c \in DOMAIN table_defs[t] : unknown_type(table_defs[t][c])

====
